---- MODULE Spec2Model ----
(***************************************************************************)
(* A model of roastme's history retrieval layer (internal/history) and of  *)
(* its pattern analyzer (internal/analysis).                               *)
(*                                                                         *)
(* A Go string is modelled as the sequence of its bytes, so that trimming, *)
(* prefix tests, slicing, splitting and regular-expression matching are    *)
(* computed byte by byte, as len(s) and s[i:j] of Go count.  An ASCII byte *)
(* is written as its character, any other byte as its two hexadecimal      *)
(* digits ("E4").                                                          *)
(***************************************************************************)
EXTENDS Integers, Sequences, FiniteSets, TLC

\* the state of a call of GetShellHistory
VARIABLES variant, shell, fileExists, file, limit, pc, dialect, pos, commands, result, err

\* the state of the calls of AnalyzeHistory: its argument, the number of calls
\* made on it, what the first and the second call returned, and the run-time
\* failure of a call that did not return
VARIABLES cmds, calls, out1, out2, failure

hvars == <<variant, shell, fileExists, file, limit, pc, dialect, pos, commands, result, err>>

avars == <<cmds, calls, out1, out2, failure>>

\* the path GetShellHistory reads, what scanner.Err() returned, and the number
\* of bytes that one "x" of a history line stands for (a run of that many x)
VARIABLES historyFile, scanErr, runLen

rvars == <<historyFile, scanErr, runLen>>

\* the state of runContinuousMode: its position, its counter, the flags it
\* reads, the configuration, what the iteration holds (the history it read,
\* the outcome of the language model client, the roast) and what it has done
\* so far (roasts displayed, notifications sent, history reads, the minutes
\* slept since the last read and the minutes slept before the last read)
VARIABLES cpc, count, maxRoasts, interval, deep, notifySystem, complexity, cfg

VARIABLES history, llm, roast, displayed, notified, reads, waited, gapBefore

cvars == <<cpc, count, maxRoasts, interval, deep, notifySystem, complexity, cfg,
           history, llm, roast, displayed, notified, reads, waited, gapBefore>>

\* the configuration screen: the model the event loop holds, whether the
\* program was told to quit, the package variable config, whether it was
\* written to the configuration file, for each save the page field of the
\* copy of the model that its goroutine writes to ("none" for a save that
\* failed and started no goroutine), and the number of the last successful
\* save when no message was handled since (0 otherwise)
VARIABLES model, quit, config, written, copies, lastSave

uvars == <<model, quit, config, written, copies, lastSave>>

vars == <<hvars, avars, rvars, cvars, uvars>>

\* no roast was generated
NoRoast == [text |-> "none", err |-> "nil", aiErr |-> "none", init |-> "none",
            called |-> FALSE, sampled |-> <<>>]

\* continuous mode is not running
IdleRoast ==
  /\ cpc = "idle"
  /\ count = 0
  /\ maxRoasts = 0
  /\ interval = 0
  /\ deep = FALSE
  /\ notifySystem = FALSE
  /\ complexity = "none"
  /\ cfg = "none"
  /\ history = "none"
  /\ llm = "none"
  /\ roast = NoRoast
  /\ displayed = 0
  /\ notified = 0
  /\ reads = 0
  /\ waited = 0
  /\ gapBefore = 0

\* the configuration screen is not running
IdleConfig ==
  /\ model = "none"
  /\ quit = FALSE
  /\ config = "none"
  /\ written = FALSE
  /\ copies = <<>>
  /\ lastSave = 0

(***************************************************************************)
(* Bounds of the model.                                                    *)
(***************************************************************************)
\* the longest history file, in lines
MaxLines == 3
\* the largest retention limit tried
MaxLimit == 2
\* the largest number of pieces a generated line is made of
MaxPieces == 3

(***************************************************************************)
(* Strings.                                                                *)
(***************************************************************************)
\* unicode.IsSpace, on the characters of the model's alphabet
IsSpace(c) == c \in {" ", "\t"}

\* '0' <= c <= '9': the class \d of Go's regexp (ASCII digits only)
IsDigit(c) == c \in {"0", "1", "2", "3", "4", "5", "6", "7", "8", "9"}

RECURSIVE TrimLeft(_)
TrimLeft(s) == IF s # <<>> /\ IsSpace(Head(s)) THEN TrimLeft(Tail(s)) ELSE s

RECURSIVE TrimRight(_)
TrimRight(s) ==
  IF s # <<>> /\ IsSpace(s[Len(s)]) THEN TrimRight(SubSeq(s, 1, Len(s) - 1)) ELSE s

\* strings.TrimSpace
TrimSpace(s) == TrimRight(TrimLeft(s))

\* strings.HasPrefix
HasPrefix(s, p) == Len(s) >= Len(p) /\ SubSeq(s, 1, Len(p)) = p

\* s[i:] of Go, with the 1-based index of the first character kept
From(s, i) == SubSeq(s, i, Len(s))

\* the 1-based positions at which sub occurs in s
Occurrences(s, sub) ==
  {i \in 1..(Len(s) - Len(sub) + 1) : SubSeq(s, i, i + Len(sub) - 1) = sub}

\* strings.Contains
Contains(s, sub) ==
  \E i \in 1..(Len(s) - Len(sub) + 1) : \A k \in 1..Len(sub) : s[i + k - 1] = sub[k]

Min(S) == CHOOSE x \in S : \A y \in S : x <= y

\* strings.SplitN(s, sep, 2): one part when sep does not occur, else the text
\* before and the text after its first occurrence
SplitN2(s, sep) ==
  IF Contains(s, sep)
    THEN LET i == Min(Occurrences(s, sep))
         IN <<SubSeq(s, 1, i - 1), From(s, i + Len(sep))>>
    ELSE <<s>>

\* the last n elements of a sequence: q[len(q)-n:]
LastN(q, n) == SubSeq(q, Len(q) - n + 1, Len(q))

(***************************************************************************)
(* Regular expressions of the line parsers (Go regexp: leftmost match,     *)
(* not anchored; FindStringSubmatch returns nil, here <<>>, on no match).  *)
(***************************************************************************)
\* the index of the last character of the longest run of digits starting at
\* i, or i - 1 when s[i] is no digit
RECURSIVE DigitsEnd(_, _)
DigitsEnd(s, i) == IF i <= Len(s) /\ IsDigit(s[i]) THEN DigitsEnd(s, i + 1) ELSE i - 1

\* `: \d+:\d+;` matched at position i: the index of its ';', or 0
ZshStampAt(s, i) ==
  IF i + 1 <= Len(s) /\ s[i] = ":" /\ s[i + 1] = " "
    THEN LET a == DigitsEnd(s, i + 2)
         IN IF a >= i + 2 /\ a + 1 <= Len(s) /\ s[a + 1] = ":"
              THEN LET b == DigitsEnd(s, a + 2)
                   IN IF b >= a + 2 /\ b + 1 <= Len(s) /\ s[b + 1] = ";"
                        THEN b + 1
                        ELSE 0
              ELSE 0
    ELSE 0

ZshStampStarts(s) == {i \in 1..Len(s) : ZshStampAt(s, i) # 0}

\* re.FindStringSubmatch(line) for `: \d+:\d+;(.*)`: <<match, group 1>>
zshLineRegexp(line) ==
  IF ZshStampStarts(line) = {}
    THEN <<>>
    ELSE LET i == Min(ZshStampStarts(line))
         IN <<From(line, i), From(line, ZshStampAt(line, i) + 1)>>

\* re.FindStringSubmatch(line) for `: (\d+):\d+;(.*)`: <<match, group 1, group 2>>
zshFileRegexp(line) ==
  IF ZshStampStarts(line) = {}
    THEN <<>>
    ELSE LET i == Min(ZshStampStarts(line))
         IN <<From(line, i),
              SubSeq(line, i + 2, DigitsEnd(line, i + 2)),
              From(line, ZshStampAt(line, i) + 1)>>

FishCmdPrefix == <<"-", " ", "c", "m", "d", ":", " ">>

\* `- cmd: (.+)`: the prefix followed by at least one character
FishCmdStarts(s) == {i \in Occurrences(s, FishCmdPrefix) : i + Len(FishCmdPrefix) <= Len(s)}

\* re.FindStringSubmatch(line) for `- cmd: (.+)`: <<match, group 1>>
cmdRegex(line) ==
  IF FishCmdStarts(line) = {}
    THEN <<>>
    ELSE LET i == Min(FishCmdStarts(line))
         IN <<From(line, i), From(line, i + Len(FishCmdPrefix))>>

(***************************************************************************)
(* json.Unmarshal(line, &fishEntry{Cmd string `json:"cmd"`; When int64     *)
(* `json:"when"`}), for the JSON texts the model's alphabet can spell: an  *)
(* object whose values are strings without escapes or unsigned integers,   *)
(* with optional white space between the tokens.  Any other text is a      *)
(* syntax error.  The result is [err, Cmd]: err is TRUE for a syntax error *)
(* and for a value of the wrong type for its field.                        *)
(***************************************************************************)
IsJsonSpace(c) == c \in {" ", "\t"}

RECURSIVE SkipWs(_, _)
SkipWs(s, i) == IF i <= Len(s) /\ IsJsonSpace(s[i]) THEN SkipWs(s, i + 1) ELSE i

JsonFail == [ok |-> FALSE, kind |-> "none", val |-> <<>>, next |-> 0]

\* a string literal starting at i: its text and the index after its closing quote
jsonString(s, i) ==
  IF i <= Len(s) /\ s[i] = "\""
    THEN LET close == {j \in (i + 1)..Len(s) : s[j] = "\""}
         IN IF close = {}
              THEN JsonFail
              ELSE [ok |-> TRUE, kind |-> "string",
                    val |-> SubSeq(s, i + 1, Min(close) - 1), next |-> Min(close) + 1]
    ELSE JsonFail

\* an unsigned integer literal starting at i (no leading zero)
jsonNumber(s, i) ==
  LET e == DigitsEnd(s, i)
  IN IF e >= i /\ (s[i] # "0" \/ e = i)
       THEN [ok |-> TRUE, kind |-> "number", val |-> SubSeq(s, i, e), next |-> e + 1]
       ELSE JsonFail

jsonValue(s, i) == IF jsonString(s, i).ok THEN jsonString(s, i) ELSE jsonNumber(s, i)

KeyCmd == <<"c", "m", "d">>

KeyWhen == <<"w", "h", "e", "n">>

\* the decoder's store of one member into the fishEntry
jsonStore(e, key, v) ==
  IF key = KeyCmd
    THEN IF v.kind = "string" THEN [e EXCEPT !.Cmd = v.val] ELSE [e EXCEPT !.err = TRUE]
    ELSE IF key = KeyWhen
           THEN IF v.kind = "number" THEN e ELSE [e EXCEPT !.err = TRUE]
           ELSE e

JsonSyntaxError == [err |-> TRUE, Cmd |-> <<>>]

\* the members of an object from the key at i on, up to the end of the text
RECURSIVE jsonMembers(_, _, _)
jsonMembers(s, i, e) ==
  LET k == jsonString(s, i)
  IN IF ~k.ok
       THEN JsonSyntaxError
       ELSE LET c == SkipWs(s, k.next)
            IN IF c > Len(s) \/ s[c] # ":"
                 THEN JsonSyntaxError
                 ELSE LET v == jsonValue(s, SkipWs(s, c + 1))
                      IN IF ~v.ok
                           THEN JsonSyntaxError
                           ELSE LET n == SkipWs(s, v.next)
                                IN IF n > Len(s)
                                     THEN JsonSyntaxError
                                     ELSE IF s[n] = ","
                                            THEN jsonMembers(s, SkipWs(s, n + 1),
                                                             jsonStore(e, k.val, v))
                                            ELSE IF s[n] = "}" /\ SkipWs(s, n + 1) > Len(s)
                                                   THEN jsonStore(e, k.val, v)
                                                   ELSE JsonSyntaxError

Unmarshal(line) ==
  LET i == SkipWs(line, 1)
      zero == [err |-> FALSE, Cmd |-> <<>>]
  IN IF i > Len(line) \/ line[i] # "{"
       THEN JsonSyntaxError
       ELSE LET j == SkipWs(line, i + 1)
            IN IF j <= Len(line) /\ line[j] = "}"
                 THEN IF SkipWs(line, j + 1) > Len(line) THEN zero ELSE JsonSyntaxError
                 ELSE jsonMembers(line, j, zero)

(***************************************************************************)
(* The line parsers.  A "contribution" is what one line appends to the     *)
(* command list: the empty sequence, or a sequence of one command.         *)
(***************************************************************************)
\* history.go: parseBashHistoryLine (its ok result is always true)
parseBashHistoryLine(line) == TrimSpace(line)

\* the fallbacks are taken when the regexp's group is empty, not when it fails
parseZshHistoryLineFallsThroughOnEmpty(line) ==
  LET matches == zshLineRegexp(line)
      parts == SplitN2(line, <<";">>)
  IN IF Len(matches) > 1 /\ TrimSpace(matches[2]) # <<>>
       THEN TrimSpace(matches[2])
       ELSE IF Len(parts) > 1 /\ TrimSpace(parts[2]) # <<>>
              THEN TrimSpace(parts[2])
              ELSE TrimSpace(line)

\* the text after the stamp is returned without trimming
parseZshHistoryLineUntrimmed(line) ==
  LET matches == zshLineRegexp(line)
      parts == SplitN2(line, <<";">>)
  IN IF Len(matches) > 1
       THEN matches[2]
       ELSE IF Len(parts) > 1
              THEN TrimSpace(parts[2])
              ELSE TrimSpace(line)

\* history.go: parseZshHistoryLine (its ok result is always true)
parseZshHistoryLine(line) ==
  LET matches == zshLineRegexp(line)
      parts == SplitN2(line, <<";">>)
  IN IF Len(matches) > 1
       THEN TrimSpace(matches[2])
       ELSE IF Len(parts) > 1
              THEN TrimSpace(parts[2])
              ELSE TrimSpace(line)

\* history.go, the scan loop of GetShellHistory: ok && cmd != ""
lineLoopBody(cmd) == IF cmd # <<>> THEN <<cmd>> ELSE <<>>

\* the textual pattern is tried first, the structured record second
fishLoopBodyRegexFirst(line) ==
  IF TrimSpace(line) = <<>>
    THEN <<>>
    ELSE IF Len(cmdRegex(line)) > 1
           THEN <<TrimSpace(cmdRegex(line)[2])>>
           ELSE IF ~Unmarshal(line).err /\ Unmarshal(line).Cmd # <<>>
                  THEN <<Unmarshal(line).Cmd>>
                  ELSE <<>>

\* history.go: the loop body of parseFishHistory
fishLoopBody(line) ==
  IF TrimSpace(line) = <<>>
    THEN <<>>
    ELSE IF ~Unmarshal(line).err /\ Unmarshal(line).Cmd # <<>>
           THEN <<Unmarshal(line).Cmd>>
           ELSE IF Len(cmdRegex(line)) > 1
                  THEN <<TrimSpace(cmdRegex(line)[2])>>
                  ELSE <<>>

\* part_001: the loop body of parseBashHistory, before the eviction
bashFileLoopBody(line) ==
  IF HasPrefix(line, <<"#">>)
    THEN <<>>
    ELSE IF TrimSpace(line) # <<>> THEN <<TrimSpace(line)>> ELSE <<>>

\* part_001: the loop body of parseZshHistory, before the eviction
zshFileLoopBody(line) ==
  LET matches == zshFileRegexp(line)
      parts == SplitN2(line, <<";">>)
  IN IF Len(matches) > 2
       THEN IF TrimSpace(matches[3]) # <<>> THEN <<TrimSpace(matches[3])>> ELSE <<>>
       ELSE IF Len(parts) > 1
              THEN IF TrimSpace(parts[2]) # <<>> THEN <<TrimSpace(parts[2])>> ELSE <<>>
              ELSE IF TrimSpace(line) # <<>> THEN <<TrimSpace(line)>> ELSE <<>>

\* part_001: the loop body of parseFishHistory, before the eviction
fishFileLoopBody(line) ==
  IF TrimSpace(line) = <<>>
    THEN <<>>
    ELSE IF ~Unmarshal(line).err /\ Unmarshal(line).Cmd # <<>>
           THEN <<Unmarshal(line).Cmd>>
           ELSE IF Len(cmdRegex(line)) > 1 /\ TrimSpace(cmdRegex(line)[2]) # <<>>
                  THEN <<TrimSpace(cmdRegex(line)[2])>>
                  ELSE <<>>

\* the two versions of the reader that the repository holds
Variants == {"history.go", "part_001"}

\* what one line appends to commands, by version and dialect
Contribution(v, d, line) ==
  IF v = "history.go"
    THEN CASE d = "zsh" -> lineLoopBody(parseZshHistoryLine(line))
           [] d = "fish" -> fishLoopBody(line)
           [] OTHER -> lineLoopBody(parseBashHistoryLine(line))
    ELSE CASE d = "zsh" -> zshFileLoopBody(line)
           [] d = "fish" -> fishFileLoopBody(line)
           [] OTHER -> bashFileLoopBody(line)

(***************************************************************************)
(* Inputs: shell identifiers, history lines and history files.             *)
(***************************************************************************)
zsh == <<"z", "s", "h">>

bash == <<"b", "a", "s", "h">>

fish == <<"f", "i", "s", "h">>

\* values of $SHELL: /bin/zsh, /bin/bash, fish, and unset
Shells == {<<"/", "b", "i", "n", "/", "z", "s", "h">>, <<"/", "b", "i", "n", "/", "b", "a", "s", "h">>, fish, <<>>}

\* "No history file found"
NoHistoryFileFound ==
  <<"N", "o", " ", "h", "i", "s", "t", "o", "r", "y", " ", "f", "i", "l",
    "e", " ", "f", "o", "u", "n", "d">>

\* "No fish history file found"
NoFishHistoryFileFound ==
  <<"N", "o", " ", "f", "i", "s", "h", " ", "h", "i", "s", "t", "o", "r",
    "y", " ", "f", "i", "l", "e", " ", "f", "o", "u", "n", "d">>

\* the lines the history files of the model are made of:
\*   "ls", " ", "#1", ": 1:2;cd", "- cmd: a"
FileLines ==
  {<<"l", "s">>, <<" ">>, <<"#", "1">>,
   <<":", " ", "1", ":", "2", ";", "c", "d">>,
   <<"-", " ", "c", "m", "d", ":", " ", "a">>}

\* the pieces the single lines of the model are made of:
\*   ": 1:2;", "ls", " ", ";", "#", "- cmd: ", {"cmd":", "}
Pieces ==
  {<<":", " ", "1", ":", "2", ";">>,
   <<"l", "s">>, <<" ">>, <<";">>, <<"#">>,
   <<"-", " ", "c", "m", "d", ":", " ">>,
   <<"{", "\"", "c", "m", "d", "\"", ":", "\"">>,
   <<"\"", "}">>}

\* lines of interest that take more pieces than MaxPieces:
\*   {"cmd":"","k":"- cmd: ls"}   {"cmd":" ls "}   {"cmd":"ls","when":1}
\*   {"cmd":"ls","when":"1"}      {"when":1}       {"cmd":1}
\*   { "cmd" : "ls" }             ls;: 1:2;cd      <tab>ls
SpecialLines ==
  {<<"{", "\"", "c", "m", "d", "\"", ":", "\"", "\"", ",", "\"", "k", "\"", ":", "\"", "-", " ", "c", "m", "d", ":", " ", "l", "s", "\"", "}">>,
   <<"{", "\"", "c", "m", "d", "\"", ":", "\"", " ", "l", "s", " ", "\"", "}">>,
   <<"{", "\"", "c", "m", "d", "\"", ":", "\"", "l", "s", "\"", ",", "\"", "w", "h", "e", "n", "\"", ":", "1", "}">>,
   <<"{", "\"", "c", "m", "d", "\"", ":", "\"", "l", "s", "\"", ",", "\"", "w", "h", "e", "n", "\"", ":", "\"", "1", "\"", "}">>,
   <<"{", "\"", "w", "h", "e", "n", "\"", ":", "1", "}">>,
   <<"{", "\"", "c", "m", "d", "\"", ":", "1", "}">>,
   <<"{", " ", "\"", "c", "m", "d", "\"", " ", ":", " ", "\"", "l", "s", "\"", " ", "}">>,
   <<"l", "s", ";", ":", " ", "1", ":", "2", ";", "c", "d">>,
   <<"\t", "l", "s">>}

RECURSIVE Flatten(_)
Flatten(ss) == IF ss = <<>> THEN <<>> ELSE Head(ss) \o Flatten(Tail(ss))

\* the sequences over S of length at most n
SeqsUpTo(S, n) == UNION {[1..k -> S] : k \in 0..n}

Lines == {Flatten(ps) : ps \in SeqsUpTo(Pieces, MaxPieces)} \cup SpecialLines

Files == SeqsUpTo(FileLines, MaxLines)

Limits == {-2, -1} \cup (0..MaxLimit)

(***************************************************************************)
(* GetShellHistory(limit), one step per statement group.                   *)
(*   pc: start -> stat -> open -> scan -> done, or panic (a run-time       *)
(*   failure of the Go program).                                           *)
(***************************************************************************)
\* the if/else-if chain on strings.Contains(shell, ...)
DialectOf(sh) ==
  IF Contains(sh, zsh) THEN "zsh"
  ELSE IF Contains(sh, bash) THEN "bash"
  ELSE IF Contains(sh, fish) THEN "fish"
  ELSE "unknown"

\* what is returned when os.Stat reports that the file does not exist
MissingFileResult(v, d) ==
  IF v = "history.go" /\ d = "fish" THEN <<NoFishHistoryFileFound>> ELSE <<NoHistoryFileFound>>

\* the oldest commands are kept instead of the most recent ones
mostRecentKeepsOldest(cs, lim) ==
  IF lim = -1
    THEN [panic |-> FALSE, out |-> cs]
    ELSE IF Len(cs) > lim
           THEN IF lim < 0
                  THEN [panic |-> TRUE, out |-> <<>>]
                  ELSE [panic |-> FALSE, out |-> SubSeq(cs, 1, lim)]
           ELSE [panic |-> FALSE, out |-> cs]

\* limit = -1 is not treated as "unbounded" (the slice is then out of range)
mostRecentNoSentinel(cs, lim) ==
  IF Len(cs) > lim
    THEN IF lim < 0
           THEN [panic |-> TRUE, out |-> <<>>]
           ELSE [panic |-> FALSE, out |-> LastN(cs, lim)]
    ELSE [panic |-> FALSE, out |-> cs]

\* history.go: the end of GetShellHistory and of parseFishHistory.
\* commands[len(commands)-limit:] with limit < 0 is a slice out of range.
mostRecent(cs, lim) ==
  IF lim = -1
    THEN [panic |-> FALSE, out |-> cs]
    ELSE IF Len(cs) > lim
           THEN IF lim < 0
                  THEN [panic |-> TRUE, out |-> <<>>]
                  ELSE [panic |-> FALSE, out |-> LastN(cs, lim)]
           ELSE [panic |-> FALSE, out |-> cs]

\* the newest command is dropped instead of the oldest
evictNewest(cs, lim) ==
  IF lim > 0 /\ Len(cs) > lim THEN SubSeq(cs, 1, Len(cs) - 1) ELSE cs

\* part_001: "if we exceed the limit, remove oldest commands"
evict(cs, lim) == IF lim > 0 /\ Len(cs) > lim THEN Tail(cs) ELSE cs

\* the home directory, as homedir.Dir() returns it
home == "<home>"

\* filepath.Join: the elements of the path, in order
Join(elems) == SelectSeq(elems, LAMBDA e : e # "")

\* zsh is tested after bash
historyFileOfBashFirst(sh) ==
  IF Contains(sh, bash) THEN Join(<<home, ".bash_history">>)
  ELSE IF Contains(sh, zsh) THEN Join(<<home, ".zsh_history">>)
  ELSE IF Contains(sh, fish) THEN Join(<<home, ".local", "share", "fish", "fish_history">>)
  ELSE Join(<<home, ".bash_history">>)

\* the historyFile the if/else-if chain assigns
historyFileOf(sh) ==
  IF Contains(sh, zsh) THEN Join(<<home, ".zsh_history">>)
  ELSE IF Contains(sh, bash) THEN Join(<<home, ".bash_history">>)
  ELSE IF Contains(sh, fish) THEN Join(<<home, ".local", "share", "fish", "fish_history">>)
  ELSE Join(<<home, ".bash_history">>)

\* bufio.MaxScanTokenSize = 64 * 1024, the limit of a Scanner on which
\* Buffer was not called
MaxScanTokenSize == 65536

\* const maxCapacity = 1024 * 1024, given to scanner.Buffer
maxCapacity == 1048576

\* the largest buffer the scanner of a reader grows to
maxTokenSize(v) == IF v = "part_001" THEN maxCapacity ELSE MaxScanTokenSize

\* the byte that stands for a run of runLen equal bytes
RunByte == "x"

\* the length in bytes of a line in which every RunByte stands for n of them
lineBytes(line, n) ==
  Len(line) + (n - 1) * Cardinality({i \in 1..Len(line) : line[i] = RunByte})

\* bufio.Scanner.Scan: the buffer is full (maxTokenSize bytes) and holds no
\* end of line, so that the scanner stops with ErrTooLong
tokenTooLong(v, n) == n >= maxTokenSize(v)

\* bufio.ErrTooLong
ErrTooLong == "bufio.Scanner: token too long"

\* the error of a failed read of the file
ReadError == "read error"

\* the error GetShellHistory returns when scanner.Err() is e: history.go
\* returns e; the parsers of part_001 return fmt.Errorf("error reading [fish
\* ]history file: %v", e), which its GetShellHistory wraps into
\* fmt.Errorf("error parsing history file: %v", ...)
returnedError(v, d, e) ==
  IF v = "history.go"
    THEN e
    ELSE CASE d = "fish" /\ e = ReadError ->
                "error parsing history file: error reading fish history file: read error"
           [] d = "fish" /\ e = ErrTooLong ->
                "error parsing history file: error reading fish history file: bufio.Scanner: token too long"
           [] d # "fish" /\ e = ReadError ->
                "error parsing history file: error reading history file: read error"
           [] OTHER ->
                "error parsing history file: error reading history file: bufio.Scanner: token too long"

Locate ==
  /\ pc = "start"
  /\ dialect' = DialectOf(shell)
  /\ historyFile' = historyFileOf(shell)
  /\ pc' = "stat"
  /\ UNCHANGED <<variant, shell, fileExists, file, limit, pos, commands, result, err>>
  /\ UNCHANGED <<avars, scanErr, runLen, cvars, uvars>>

Stat ==
  /\ pc = "stat"
  /\ IF fileExists
       THEN pc' = "open" /\ UNCHANGED result
       ELSE pc' = "done" /\ result' = MissingFileResult(variant, dialect)
  /\ UNCHANGED <<variant, shell, fileExists, file, limit, dialect, pos, commands, err>>
  /\ UNCHANGED <<avars, rvars, cvars, uvars>>

\* part_001 allocates make([]string, 0, limit): a negative capacity panics
Open ==
  /\ pc = "open"
  /\ pc' = IF variant = "part_001" /\ limit < 0 THEN "panic" ELSE "scan"
  /\ UNCHANGED <<variant, shell, fileExists, file, limit, dialect, pos, commands, result, err>>
  /\ UNCHANGED <<avars, rvars, cvars, uvars>>

\* one turn of "for scanner.Scan()": the next line is parsed, or it does not
\* fit the scanner's buffer and the loop ends with scanner.Err() = ErrTooLong
ScanLine ==
  /\ pc = "scan"
  /\ pos <= Len(file)
  /\ IF tokenTooLong(variant, lineBytes(file[pos], runLen))
       THEN /\ pc' = "done"
            /\ scanErr' = ErrTooLong
            /\ err' = returnedError(variant, dialect, ErrTooLong)
            /\ result' = <<>>
            /\ UNCHANGED <<commands, pos>>
       ELSE /\ LET appended == commands \o Contribution(variant, dialect, file[pos])
               IN commands' = IF variant = "part_001" THEN evict(appended, limit) ELSE appended
            /\ pos' = pos + 1
            /\ UNCHANGED <<pc, scanErr, err, result>>
  /\ UNCHANGED <<variant, shell, fileExists, file, limit, dialect>>
  /\ UNCHANGED <<avars, historyFile, runLen, cvars, uvars>>

Return ==
  /\ pc = "scan"
  /\ pos > Len(file)
  /\ IF variant = "history.go"
       THEN /\ pc' = IF mostRecent(commands, limit).panic THEN "panic" ELSE "done"
            /\ result' = mostRecent(commands, limit).out
       ELSE /\ pc' = "done"
            /\ result' = commands
  /\ UNCHANGED <<variant, shell, fileExists, file, limit, dialect, pos, commands, err>>
  /\ UNCHANGED <<avars, rvars, cvars, uvars>>

\* scanner.Scan() ends the loop because a read of the file failed:
\* scanner.Err() is the error of the read
ScanError ==
  /\ pc = "scan"
  /\ pc' = "done"
  /\ result' = <<>>
  /\ scanErr' = ReadError
  /\ err' = returnedError(variant, dialect, ReadError)
  /\ UNCHANGED <<variant, shell, fileExists, file, limit, dialect, pos, commands>>
  /\ UNCHANGED <<avars, historyFile, runLen, cvars, uvars>>

Next == Locate \/ Stat \/ Open \/ ScanLine \/ Return \/ ScanError

\* a missing file has no content
InitCommon ==
  /\ variant \in Variants
  /\ shell \in Shells
  /\ pc = "start"
  /\ dialect = "none"
  /\ pos = 1
  /\ commands = <<>>
  /\ result = <<>>
  /\ err = "nil"
  /\ historyFile = <<>>
  /\ scanErr = "nil"
  /\ cmds = <<>>
  /\ calls = 0
  /\ out1 = "none"
  /\ out2 = "none"
  /\ failure = "none"
  /\ IdleRoast
  /\ IdleConfig

\* history files of up to MaxLines lines, every limit
Init ==
  /\ InitCommon
  /\ runLen = 1
  /\ limit \in Limits
  /\ \/ fileExists = TRUE /\ file \in Files
     \/ fileExists = FALSE /\ file = <<>>

Spec == Init /\ [][Next]_vars

\* history files of one line, limit 1
InitLine ==
  /\ InitCommon
  /\ runLen = 1
  /\ limit = 1
  /\ \/ fileExists = TRUE /\ file \in {<<l>> : l \in Lines}
     \/ fileExists = FALSE /\ file = <<>>

SpecLine == InitLine /\ [][Next]_vars

(***************************************************************************)
(* Properties of GetShellHistory on whole files (specification Spec).      *)
(***************************************************************************)
\* the commands of a file: the contributions of its lines, in file order
RECURSIVE Parsed(_, _, _)
Parsed(v, d, f) ==
  IF f = <<>> THEN <<>> ELSE Contribution(v, d, Head(f)) \o Parsed(v, d, Tail(f))

ParsedNow == Parsed(variant, dialect, file)

Smaller(a, b) == IF a < b THEN a ELSE b

\* C1: for limit > 0 and an existing history file, a call that returns
\* without error returns exactly the last min(limit, n) of the n commands
\* parsed from the file, in file order; and the call does not fail at run time.
C1_LastLimitCommands ==
  /\ (fileExists /\ limit > 0) => pc # "panic"
  /\ (pc = "done" /\ err = "nil" /\ fileExists /\ limit > 0)
       => result = SubSeq(ParsedNow, Len(ParsedNow) - Smaller(limit, Len(ParsedNow)) + 1,
                          Len(ParsedNow))

\* a call that had to cut a history of more than limit >= 2 commands
C1_Witness ==
  /\ pc = "done"
  /\ err = "nil"
  /\ fileExists
  /\ limit >= 2
  /\ Len(ParsedNow) > limit
  /\ Len(result) = limit
  /\ result[1] # result[2]

\* C2: with limit = -1 the reader of history.go returns every command parsed
\* from the file, in file order, however many there are, in each dialect.
C2_UnboundedSentinel ==
  /\ (fileExists /\ limit = -1 /\ variant = "history.go") => pc # "panic"
  /\ (pc = "done" /\ err = "nil" /\ fileExists /\ limit = -1 /\ variant = "history.go")
       => result = ParsedNow

\* a call with limit = -1 that returned more commands than any limit tried
C2_Witness ==
  /\ pc = "done"
  /\ err = "nil"
  /\ fileExists
  /\ limit = -1
  /\ variant = "history.go"
  /\ Len(result) > MaxLimit
  /\ result = ParsedNow

\* C3 as claimed: in every dialect a missing history file gives a nil error
\* and the one-element sequence "No history file found".
C3_MissingFileSentinel ==
  (pc = "done" /\ ~fileExists) => (err = "nil" /\ result = <<NoHistoryFileFound>>)

\* C4 as claimed: for every limit >= 0 a sequence returned without error has
\* at most limit elements, also for limit = 0 and for a missing file.
C4_LengthAtMostLimit ==
  (pc = "done" /\ err = "nil" /\ limit >= 0) => Len(result) <= limit

(***************************************************************************)
(* AnalyzeHistory(commands).                                               *)
(***************************************************************************)
UpperCase ==
  <<"A", "B", "C", "D", "E", "F", "G", "H", "I", "J", "K", "L", "M",
    "N", "O", "P", "Q", "R", "S", "T", "U", "V", "W", "X", "Y", "Z">>

LowerCase ==
  <<"a", "b", "c", "d", "e", "f", "g", "h", "i", "j", "k", "l", "m",
    "n", "o", "p", "q", "r", "s", "t", "u", "v", "w", "x", "y", "z">>

\* upper-case letter -> lower-case letter
LowerOf ==
  [c \in {UpperCase[i] : i \in 1..Len(UpperCase)} |->
     LowerCase[CHOOSE i \in 1..Len(UpperCase) : UpperCase[i] = c]]

\* strings.ToLower, on ASCII
ToLowerChar(c) == IF c \in DOMAIN LowerOf THEN LowerOf[c] ELSE c

ToLower(s) == [i \in 1..Len(s) |-> ToLowerChar(s[i])]

\* strings.Fields: the maximal runs of bytes that are not white space, in
\* the order of their first bytes
Fields(s) ==
  LET starts == {i \in 1..Len(s) : ~IsSpace(s[i]) /\ (i = 1 \/ IsSpace(s[i - 1]))}
      start(k) == CHOOSE i \in starts : Cardinality({j \in starts : j < i}) = k - 1
      end(i) == Min({j \in i..Len(s) : j = Len(s) \/ IsSpace(s[j + 1])})
  IN [k \in 1..Cardinality(starts) |-> SubSeq(s, start(k), end(start(k)))]

\* strings.Count(s, c) for a one-character c
Count(s, c) == Cardinality({i \in 1..Len(s) : s[i] = c})

\* baseCmdParts[0] of each command, or <<>> for a command without fields
BaseOf(cmd) == IF Len(Fields(cmd)) > 0 THEN <<Fields(cmd)[1]>> ELSE <<>>

\* commandCounts after the first loop: base command -> occurrences
commandCounts(cs) ==
  LET bases == [i \in 1..Len(cs) |-> BaseOf(cs[i])]
      keys == {bases[i][1] : i \in {j \in 1..Len(cs) : bases[j] # <<>>}}
  IN [b \in keys |-> Cardinality({i \in 1..Len(cs) : bases[i] = <<b>>})]

\* a count of 3 is reported as well
RepeatedEntriesFromThree(cs) ==
  LET counts == commandCounts(cs)
  IN {[Command |-> b, Count |-> counts[b]] :
        b \in {k \in DOMAIN counts : counts[k] >= 3 /\ k # <<>>}}

\* the entries the second loop appends to RepeatedCommands
RepeatedEntries(cs) ==
  LET counts == commandCounts(cs)
  IN {[Command |-> b, Count |-> counts[b]] :
        b \in {k \in DOMAIN counts : counts[k] > 3 /\ k # <<>>}}

\* the orders in which a range over a Go map may visit the entries: the
\* iteration order of a map is unspecified, and differs from run to run
MapOrders(S) ==
  {q \in [1..Cardinality(S) -> S] : \A i, j \in 1..Cardinality(S) : q[i] = q[j] => i = j}

cdPrefix == <<"c", "d", " ">>

mkdirPrefix == <<"m", "k", "d", "i", "r", " ">>

gitPrefix == <<"g", "i", "t", " ">>

lsPrefix == <<"l", "s", " ">>

ls == <<"l", "s">>

\* the second argument is returned, whatever the first
minSecond(a, b) == b

\* min(a, b)
min(a, b) == IF a < b THEN a ELSE b

\* prevCmd[:min(len(prevCmd), 4)] is evaluated (the three prefix tests come
\* first in the condition) with a bound beyond the length of prevCmd: a slice
\* out of range
sliceOutOfRange(prevCmd) ==
  /\ \/ HasPrefix(prevCmd, cdPrefix)
     \/ HasPrefix(prevCmd, mkdirPrefix)
     \/ HasPrefix(prevCmd, gitPrefix)
  /\ min(Len(prevCmd), 4) > Len(prevCmd)

\* the "failed commands" loop stops with a run-time failure
failedLoopPanics(cs) == \E i \in 2..Len(cs) : sliceOutOfRange(cs[i - 1])

\* the condition of the "failed commands" loop on one adjacent pair
IsCorrection(prevCmd, currCmd) ==
  /\ \/ HasPrefix(prevCmd, cdPrefix)
     \/ HasPrefix(prevCmd, mkdirPrefix)
     \/ HasPrefix(prevCmd, gitPrefix)
  /\ HasPrefix(currCmd, SubSeq(prevCmd, 1, min(Len(prevCmd), 4)))

RECURSIVE FailedFrom(_, _)
FailedFrom(cs, i) ==
  IF i > Len(cs)
    THEN <<>>
    ELSE (IF IsCorrection(cs[i - 1], cs[i]) THEN <<cs[i - 1]>> ELSE <<>>)
           \o FailedFrom(cs, i + 1)

FailedCommands(cs) == FailedFrom(cs, 2)

IsComplex(cmd) == Count(cmd, "|") > 2 \/ Count(cmd, ";") > 2 \/ Len(cmd) > 80

ComplexCommands(cs) == SelectSeq(cs, IsComplex)

\* the command "ls" without arguments is not counted
cdLsCountWithoutBareLs(cs) ==
  Cardinality({i \in 1..Len(cs) :
                 HasPrefix(cs[i], cdPrefix) \/ HasPrefix(cs[i], lsPrefix)})

cdLsCount(cs) ==
  Cardinality({i \in 1..Len(cs) :
                 HasPrefix(cs[i], cdPrefix) \/ HasPrefix(cs[i], lsPrefix) \/ cs[i] = ls})

\* the flag is set from 40% on
IndecisiveAtLeast(cs) == 5 * cdLsCount(cs) >= 2 * Len(cs)

\* float64(cdLsCount) > float64(len(commands))*0.4.  The double nearest to
\* 0.4 is 0.4*(1 + 2^-54), and n times it rounds to 0.4*n whenever 0.4*n is
\* an integer, so on integers the comparison is that of 5*count with 2*n.
Indecisive(cs) == 5 * cdLsCount(cs) > 2 * Len(cs)

timeWasters ==
  <<<<"r", "e", "d", "d", "i", "t">>,
    <<"y", "o", "u", "t", "u", "b", "e">>,
    <<"t", "w", "i", "t", "t", "e", "r">>,
    <<"f", "a", "c", "e", "b", "o", "o", "k">>,
    <<"i", "n", "s", "t", "a", "g", "r", "a", "m">>>>

\* no item is ever found in the slice
containsNever(slice, item) == FALSE

\* contains(slice, item)
contains(slice, item) == \E i \in 1..Len(slice) : slice[i] = item

\* the inner loop over the vocabulary for one lower-cased command
RECURSIVE WastersOf(_, _, _)
WastersOf(cmdLower, k, found) ==
  IF k > Len(timeWasters)
    THEN found
    ELSE WastersOf(cmdLower, k + 1,
                   IF Contains(cmdLower, timeWasters[k]) /\ ~contains(found, timeWasters[k])
                     THEN Append(found, timeWasters[k])
                     ELSE found)

RECURSIVE TimeWastersFrom(_, _, _)
TimeWastersFrom(cs, i, found) ==
  IF i > Len(cs)
    THEN found
    ELSE TimeWastersFrom(cs, i + 1, WastersOf(ToLower(cs[i]), 1, found))

TimeWasters(cs) == TimeWastersFrom(cs, 1, <<>>)

advancedCmds ==
  <<<<"a", "w", "k">>,
    <<"s", "e", "d">>,
    <<"g", "r", "e", "p", " ", "-", "E">>,
    <<"x", "a", "r", "g", "s">>,
    <<"f", "i", "n", "d", " ", "-", "e", "x", "e", "c">>,
    <<"d", "o", "c", "k", "e", "r">>,
    <<"k", "u", "b", "e", "r", "n", "e", "t", "e", "s">>,
    <<"k", "8", "s">>,
    <<"k", "u", "b", "e", "c", "t", "l">>>>

\* the inner loop with its break: one command counts once
IsAdvanced(cmd) ==
  LET cmdLower == ToLower(cmd)
  IN \E k \in 1..Len(advancedCmds) : Contains(cmdLower, advancedCmds[k])

advancedCount(cs) == Cardinality({i \in 1..Len(cs) : IsAdvanced(cs[i])})

\* the tiers begin at 5 and at 2 advanced commands
SkillLevelFromFive(cs) ==
  LET n == advancedCount(cs)
  IN IF n >= 5 THEN "advanced" ELSE IF n >= 2 THEN "intermediate" ELSE "beginner"

SkillLevel(cs) ==
  LET n == advancedCount(cs)
  IN IF n > 5 THEN "advanced" ELSE IF n > 2 THEN "intermediate" ELSE "beginner"

\* the CommandPattern returned when the map is visited in the order rep
AnalyzeHistory(cs, rep) ==
  [RepeatedCommands |-> rep,
   FailedCommands |-> FailedCommands(cs),
   ComplexCommands |-> ComplexCommands(cs),
   Indecisive |-> Indecisive(cs),
   TimeWasters |-> TimeWasters(cs),
   SkillLevel |-> SkillLevel(cs)]

(***************************************************************************)
(* Calls of AnalyzeHistory on one unchanged command sequence.              *)
(***************************************************************************)
\* the largest number of blocks an analysed sequence is made of
MaxBlocks == 3

\* the commands of the analysed sequences: "git a", "git b", "ls", "cd x", "vim"
AnalyzeCmds ==
  {<<"g", "i", "t", " ", "a">>, <<"g", "i", "t", " ", "b">>, <<"l", "s">>,
   <<"c", "d", " ", "x">>, <<"v", "i", "m">>}

\* a block is one command repeated once, or 4 times (more than the 3 of the
\* repetition threshold)
RepeatCounts == {1, 4}

Blocks == {[i \in 1..n |-> c] : c \in AnalyzeCmds, n \in RepeatCounts}

\* the largest number of commands of a sequence of unusual commands
MaxEdge == 2

\* two characters of three bytes each, with the same first two bytes
Zhong == <<"E4", "B8", "AD">>

Xia == <<"E4", "B8", "8B">>

\* unusual commands: "", " ", "cd ", "git", " ls", "mkdir x", "lsof", and
\* "cd " followed by the one and by the other three-byte character
EdgeCmds ==
  {<<>>, <<" ">>, <<"c", "d", " ">>, <<"g", "i", "t">>, <<" ", "l", "s">>,
   <<"m", "k", "d", "i", "r", " ", "x">>, <<"l", "s", "o", "f">>,
   <<"c", "d", " ">> \o Zhong, <<"c", "d", " ">> \o Xia}

\* n times the command c
Rep(c, n) == [i \in 1..n |-> c]

EdgeInputs == SeqsUpTo(EdgeCmds, MaxEdge) \cup {Rep(c, 4) : c \in EdgeCmds}

\* commands around the thresholds of complexity: "a|b|c", "a|b|c|d", "a;b;c",
\* "a;b;c;d", "a|b;c|d;e", 80 and 81 times "x", and 27 three-byte characters
\* (81 bytes) and 26 of them followed by "xx" (80 bytes)
ComplexityCmds ==
  {<<"a", "|", "b", "|", "c">>, <<"a", "|", "b", "|", "c", "|", "d">>,
   <<"a", ";", "b", ";", "c">>, <<"a", ";", "b", ";", "c", ";", "d">>,
   <<"a", "|", "b", ";", "c", "|", "d", ";", "e">>,
   Rep("x", 80), Rep("x", 81),
   Flatten(Rep(Zhong, 27)), Flatten(Rep(Zhong, 26)) \o <<"x", "x">>}

ComplexityInputs == SeqsUpTo(ComplexityCmds, MaxEdge)

\* sequences of 5 and of 10 commands, the first i of which are one of
\* "ls", "ls -a", "cd x", "lsof" and the others one of "vim", "cd"
IndecisionInputs ==
  {Rep(t[1], t[4]) \o Rep(t[2], t[3] - t[4]) :
     t \in {u \in {ls, <<"l", "s", " ", "-", "a">>, <<"c", "d", " ", "x">>,
                   <<"l", "s", "o", "f">>}
                    \X {<<"v", "i", "m">>, <<"c", "d">>} \X {5, 10} \X (0..10) :
               u[4] <= u[3]}}

\* the largest number of commands of a sequence that names distraction sites
MaxSites == 3

\* commands that name distraction sites: "reddit", "x YouTube", "youtube
\* reddit", "Reddit.com", "twitter", and "vim" that names none
SiteCmds ==
  {<<"r", "e", "d", "d", "i", "t">>,
   <<"x", " ", "Y", "o", "u", "T", "u", "b", "e">>,
   <<"y", "o", "u", "t", "u", "b", "e", " ", "r", "e", "d", "d", "i", "t">>,
   <<"R", "e", "d", "d", "i", "t", ".", "c", "o", "m">>,
   <<"t", "w", "i", "t", "t", "e", "r">>,
   <<"v", "i", "m">>}

SiteInputs == SeqsUpTo(SiteCmds, MaxSites)

\* commands of the advanced vocabulary: "awk", "awk|sed", "Docker ps",
\* "grep -E x", "kubectl"
ToolCmds ==
  {<<"a", "w", "k">>,
   <<"a", "w", "k", "|", "s", "e", "d">>,
   <<"D", "o", "c", "k", "e", "r", " ", "p", "s">>,
   <<"g", "r", "e", "p", " ", "-", "E", " ", "x">>,
   <<"k", "u", "b", "e", "c", "t", "l">>}

\* from 0 to 7 times a command of the advanced vocabulary, between two
\* optional "vim"
SkillInputs ==
  {Rep(<<"v", "i", "m">>, t[3]) \o Rep(t[1], t[2]) \o Rep(<<"v", "i", "m">>, t[4]) :
     t \in ToolCmds \X (0..7) \X (0..1) \X (0..1)}

AnalyzeInputs ==
  {Flatten(bs) : bs \in SeqsUpTo(Blocks, MaxBlocks)}
    \cup EdgeInputs \cup ComplexityInputs \cup IndecisionInputs
    \cup SiteInputs \cup SkillInputs

InitAnalyze ==
  /\ variant = "history.go"
  /\ shell = <<>>
  /\ fileExists = FALSE
  /\ file = <<>>
  /\ limit = 0
  /\ pc = "idle"
  /\ dialect = "none"
  /\ pos = 1
  /\ commands = <<>>
  /\ result = <<>>
  /\ err = "nil"
  /\ historyFile = <<>>
  /\ scanErr = "nil"
  /\ runLen = 1
  /\ cmds \in AnalyzeInputs
  /\ calls = 0
  /\ out1 = "none"
  /\ out2 = "none"
  /\ failure = "none"
  /\ IdleRoast
  /\ IdleConfig

\* one call of AnalyzeHistory(cmds); the range over commandCounts visits
\* the map in some order
Analyze ==
  /\ calls < 2
  /\ IF failedLoopPanics(cmds)
       THEN /\ failure' = "slice bounds out of range"
            /\ UNCHANGED <<out1, out2>>
       ELSE /\ LET entries == RepeatedEntries(cmds)
                   rest == AnalyzeHistory(cmds, <<>>)
               IN \E rep \in MapOrders(entries) :
                    IF calls = 0
                      THEN out1' = [rest EXCEPT !.RepeatedCommands = rep] /\ UNCHANGED out2
                      ELSE out2' = [rest EXCEPT !.RepeatedCommands = rep] /\ UNCHANGED out1
            /\ UNCHANGED failure
  /\ calls' = calls + 1
  /\ UNCHANGED cmds
  /\ UNCHANGED <<hvars, rvars, cvars, uvars>>

NextAnalyze == Analyze

SpecAnalyze == InitAnalyze /\ [][NextAnalyze]_vars

(***************************************************************************)
(* Properties of AnalyzeHistory (specification SpecAnalyze).               *)
(***************************************************************************)
\* the place of a character in the lexical order (base commands of the
\* analysed sequences are made of lower-case letters)
Rank(c) ==
  IF \E i \in 1..Len(LowerCase) : LowerCase[i] = c
    THEN CHOOSE i \in 1..Len(LowerCase) : LowerCase[i] = c
    ELSE 0

RECURSIVE LexLessEq(_, _)
LexLessEq(a, b) ==
  IF a = <<>> THEN TRUE
  ELSE IF b = <<>> THEN FALSE
  ELSE IF Rank(Head(a)) # Rank(Head(b)) THEN Rank(Head(a)) < Rank(Head(b))
  ELSE LexLessEq(Tail(a), Tail(b))

\* count descending, ties by ascending base command
SortedByCountThenName(q) ==
  \A i, j \in 1..Len(q) :
    i < j => \/ q[i].Count > q[j].Count
             \/ q[i].Count = q[j].Count /\ LexLessEq(q[i].Command, q[j].Command)

\* C5 as claimed: whenever two or more base commands have a count > 3, the
\* repeated-command list that AnalyzeHistory returns is sorted by descending
\* count, ties broken by ascending lexical order of the base command.
C5_RepeatedSorted ==
  (calls >= 1 /\ Cardinality(RepeatedEntries(cmds)) >= 2)
    => SortedByCountThenName(out1.RepeatedCommands)

\* C6 as claimed: two calls of AnalyzeHistory on the same unchanged sequence
\* return results that are identical in every field, list orders included.
C6_Deterministic == (calls = 2) => (out1 = out2)

(***************************************************************************)
(* Properties of the line parsers (specification SpecLine: GetShellHistory *)
(* with limit 1 on files of one line, so that the result is what the line  *)
(* contributes).  The expected values are stated without the operators of  *)
(* the model's parsers.                                                    *)
(***************************************************************************)
Max(S) == CHOOSE x \in S : \A y \in S : x >= y

\* s without its leading and trailing white space
Stripped(s) ==
  LET black == {i \in 1..Len(s) : ~IsSpace(s[i])}
  IN IF black = {} THEN <<>> ELSE SubSeq(s, Min(black), Max(black))

\* a command when it is not empty, nothing otherwise
AsCommand(c) == IF c = <<>> THEN <<>> ELSE <<c>>

AllDigits(s, a, b) == a <= b /\ \A k \in a..b : IsDigit(s[k])

\* the pairs <<i, e>> such that s[i..e] reads `: <digits>:<digits>;`
Stamps(s) ==
  {ie \in (1..Len(s)) \X (1..Len(s)) :
     /\ ie[1] + 1 <= Len(s)
     /\ s[ie[1]] = ":"
     /\ s[ie[1] + 1] = " "
     /\ s[ie[2]] = ";"
     /\ \E c \in (ie[1] + 3)..(ie[2] - 2) :
          /\ s[c] = ":"
          /\ AllDigits(s, ie[1] + 2, c - 1)
          /\ AllDigits(s, c + 1, ie[2] - 1)}

\* the text after the leftmost `: <digits>:<digits>;` of the line
AfterStamp(s) ==
  LET first == CHOOSE ie \in Stamps(s) : \A o \in Stamps(s) : ie[1] <= o[1]
  IN From(s, first[2] + 1)

Semicolons(s) == {i \in 1..Len(s) : s[i] = ";"}

AfterFirstSemicolon(s) == From(s, Min(Semicolons(s)) + 1)

TheLine == file[1]

LineDone(d) == pc = "done" /\ err = "nil" /\ fileExists /\ Len(file) = 1 /\ dialect \in d

\* the three strategies of the claim, an inapplicable one yielding nothing
ZshStrategies(s) ==
  <<IF Stamps(s) # {} THEN Stripped(AfterStamp(s)) ELSE <<>>,
    IF Semicolons(s) # {} THEN Stripped(AfterFirstSemicolon(s)) ELSE <<>>,
    Stripped(s)>>

\* C7 as claimed: a zsh line is resolved by trying (1) the pattern
\* `: <digits>:<digits>;<command>`, (2) the text after the first ';', (3) the
\* whole trimmed line, and the command is the result of the first strategy
\* whose result is not empty.
C7_FirstNonEmptyStrategy ==
  LineDone({"zsh"})
    => LET r == ZshStrategies(TheLine)
       IN result = AsCommand(IF r[1] # <<>> THEN r[1] ELSE IF r[2] # <<>> THEN r[2] ELSE r[3])

\* C7 as amended: the command is the trimmed result of the first strategy
\* that applies: (1) when the pattern occurs in the line, the text after its
\* leftmost occurrence; (2) otherwise, when the line holds a ';', the text
\* after the first ';'; (3) otherwise the whole line.  When that result is
\* empty the line contributes no command: no later strategy is tried.
C7_FirstApplicableStrategy ==
  LineDone({"zsh"})
    => LET r == ZshStrategies(TheLine)
       IN result = AsCommand(IF Stamps(TheLine) # {} THEN r[1]
                             ELSE IF Semicolons(TheLine) # {} THEN r[2]
                             ELSE r[3])

\* a zsh line whose first applicable strategy gives nothing although a later
\* one would give a command: the line is dropped
C7_Witness ==
  /\ LineDone({"zsh"})
  /\ Semicolons(TheLine) # {}
  /\ Stamps(TheLine) = {}
  /\ Stripped(AfterFirstSemicolon(TheLine)) = <<>>
  /\ Stripped(TheLine) # <<>>
  /\ result = <<>>

\* C8: a zsh line of the form `: <digits>:<digits>;<command>` yields exactly
\* the trimmed <command> (no command when that is empty), and a non-blank
\* line without ';' (which cannot match that form) yields the whole trimmed
\* line.
C8_StampedAndPlainLines ==
  LineDone({"zsh"})
    => /\ \A ie \in Stamps(TheLine) :
            ie[1] = 1 => result = AsCommand(Stripped(From(TheLine, ie[2] + 1)))
       /\ (Semicolons(TheLine) = {} /\ Stripped(TheLine) # <<>>)
            => result = <<Stripped(TheLine)>>

\* a stamped zsh line whose command had white space to trim
C8_Witness ==
  /\ LineDone({"zsh"})
  /\ \E ie \in Stamps(TheLine) :
        /\ ie[1] = 1
        /\ result = <<Stripped(From(TheLine, ie[2] + 1))>>
        /\ From(TheLine, ie[2] + 1) # result[1]
        /\ IsSpace(TheLine[Len(TheLine)])

\* C9 as claimed: a bash line contributes no command if and only if it
\* begins with '#' or is empty after trimming; every other line contributes
\* exactly its trimmed text.
C9_PlainLine ==
  LineDone({"bash", "unknown"})
    => result = IF (TheLine # <<>> /\ TheLine[1] = "#") \/ Stripped(TheLine) = <<>>
                  THEN <<>>
                  ELSE <<Stripped(TheLine)>>

\* the positions at which the text `- cmd: ` is followed by a character
CmdTexts(s) ==
  {i \in 1..Len(s) :
     /\ i + Len(FishCmdPrefix) <= Len(s)
     /\ \A k \in 1..Len(FishCmdPrefix) : s[i + k - 1] = FishCmdPrefix[k]}

\* the <text> of the leftmost `- cmd: <text>` of the line
CmdText(s) == From(s, Min(CmdTexts(s)) + Len(FishCmdPrefix))

\* the line is a structured record: it decodes without error
IsRecord(s) == ~Unmarshal(s).err

\* the record has a member named cmd: the text "cmd", in quotes, followed by
\* a colon
HasCmdField(s) ==
  \E i \in 1..Len(s) :
    /\ i + 4 <= Len(s)
    /\ SubSeq(s, i, i + 4) = <<"\"">> \o KeyCmd \o <<"\"">>
    /\ SkipWs(s, i + 5) <= Len(s)
    /\ s[SkipWs(s, i + 5)] = ":"

\* C10 as claimed: a non-blank fish line that parses as a structured record
\* with a cmd field gives cmd as the command; otherwise a line that matches
\* `- cmd: <text>` gives <text> (trimmed; whether an empty <text> is dropped
\* or kept as an empty command is left open here); a line matching neither
\* contributes nothing.
C10_FishChain ==
  LineDone({"fish"})
    => IF Stripped(TheLine) = <<>>
         THEN result = <<>>
         ELSE IF IsRecord(TheLine) /\ HasCmdField(TheLine)
                THEN result = AsCommand(Unmarshal(TheLine).Cmd)
                ELSE IF CmdTexts(TheLine) # {}
                       THEN result \in {AsCommand(Stripped(CmdText(TheLine))),
                                        <<Stripped(CmdText(TheLine))>>}
                       ELSE result = <<>>

\* C10 as amended: a non-blank fish line that parses as a structured record
\* with a non-empty cmd gives cmd, as it is, as the command; otherwise, also
\* for a record whose cmd is empty or absent, a line in which `- cmd: <text>`
\* occurs gives the trimmed <text> of the leftmost occurrence (when that is
\* empty, part_001 contributes nothing and history.go contributes the empty
\* string); a line matching neither contributes nothing.
C10_FishChainNonEmptyCmd ==
  LineDone({"fish"})
    => result =
         IF Stripped(TheLine) = <<>>
           THEN <<>>
           ELSE IF IsRecord(TheLine) /\ Unmarshal(TheLine).Cmd # <<>>
                  THEN <<Unmarshal(TheLine).Cmd>>
                  ELSE IF CmdTexts(TheLine) # {}
                         THEN IF variant = "history.go"
                                THEN <<Stripped(CmdText(TheLine))>>
                                ELSE AsCommand(Stripped(CmdText(TheLine)))
                         ELSE <<>>

\* a fish line that is a record with an empty cmd and in which `- cmd: <text>`
\* occurs: the text pattern decides
C10_Witness ==
  /\ LineDone({"fish"})
  /\ IsRecord(TheLine)
  /\ HasCmdField(TheLine)
  /\ Unmarshal(TheLine).Cmd = <<>>
  /\ CmdTexts(TheLine) # {}
  /\ result = <<Stripped(CmdText(TheLine))>>

(***************************************************************************)
(* Properties of the returned elements (specification SpecLine).           *)
(***************************************************************************)
\* the text is not empty and neither begins nor ends with white space
IsCommand(c) ==
  /\ c # <<>>
  /\ c[1] \notin {" ", "\t"}
  /\ c[Len(c)] \notin {" ", "\t"}

\* C11 as claimed: every element of a sequence returned from an existing
\* history file is non-empty and has no leading or trailing white space, in
\* all three dialects, the cmd field of a fish record included.
C11_ElementsAreCommands ==
  (pc = "done" /\ err = "nil" /\ fileExists)
    => \A i \in 1..Len(result) : IsCommand(result[i])

(***************************************************************************)
(* History files with long lines (specification SpecLong).                 *)
(***************************************************************************)
\* the lines of these files: "ls", " ", "x", "- cmd: x"
LongFileLines ==
  {<<"l", "s">>, <<" ">>, <<RunByte>>, <<"-", " ", "c", "m", "d", ":", " ", RunByte>>}

\* the lengths of the runs: one byte, and the sizes around the two buffer limits
RunLengths ==
  {1, MaxScanTokenSize - 1, MaxScanTokenSize, maxCapacity - 1, maxCapacity, maxCapacity + 1}

\* existing files whose lines may be long, read without limit or with the
\* largest limit
InitLong ==
  /\ InitCommon
  /\ limit \in {-1, MaxLimit}
  /\ fileExists = TRUE
  /\ file \in SeqsUpTo(LongFileLines, MaxLines)
  /\ runLen \in RunLengths

SpecLong == InitLong /\ [][Next]_vars

\* the length in bytes of line i of the file
BytesOfLine(i) ==
  LET xs == {k \in 1..Len(file[i]) : file[i][k] = "x"}
  IN (Len(file[i]) - Cardinality(xs)) + runLen * Cardinality(xs)

\* C12 as claimed: when every line of the history file is at most 1 MiB long
\* and no read of the file fails, GetShellHistory returns without error, and
\* (the limit permitting) the result holds the commands of all the lines that
\* yield one, whatever lines that yield none stand between them.
C12_NoLineAborts ==
  (/\ pc = "done"
   /\ fileExists
   /\ scanErr # ReadError
   /\ \A i \in 1..Len(file) : BytesOfLine(i) <= 1024 * 1024)
    => /\ err = "nil"
       /\ (limit >= Len(file) => result = ParsedNow)

(***************************************************************************)
(* Failed reads (specification Spec).                                      *)
(***************************************************************************)
\* C13 as claimed: when the scan of an existing history file ends with a
\* read error, GetShellHistory returns that very error and no commands,
\* whatever was parsed before the failure.
C13_ReadErrorUnchanged ==
  (pc = "done" /\ fileExists /\ scanErr # "nil")
    => (err = scanErr /\ result = <<>>)

(***************************************************************************)
(* Shell detection (specification SpecShell).                              *)
(***************************************************************************)
\* the largest number of pieces a value of SHELL is made of
MaxShellPieces == 2

\* the pieces of the values of SHELL: "zsh", "bash", "fish", "/", "ZSH"
ShellPieces == {zsh, bash, fish, <<"/">>, <<"Z", "S", "H">>}

ShellValues == {Flatten(ps) : ps \in SeqsUpTo(ShellPieces, MaxShellPieces)}

\* every value of SHELL, files of at most one line, limit 1
InitShell ==
  /\ variant \in Variants
  /\ shell \in ShellValues
  /\ pc = "start"
  /\ dialect = "none"
  /\ pos = 1
  /\ commands = <<>>
  /\ result = <<>>
  /\ err = "nil"
  /\ historyFile = <<>>
  /\ scanErr = "nil"
  /\ runLen = 1
  /\ cmds = <<>>
  /\ calls = 0
  /\ out1 = "none"
  /\ out2 = "none"
  /\ failure = "none"
  /\ IdleRoast
  /\ IdleConfig
  /\ limit = 1
  /\ \/ fileExists = TRUE /\ file \in SeqsUpTo(FileLines, 1)
     \/ fileExists = FALSE /\ file = <<>>

SpecShell == InitShell /\ [][Next]_vars

\* sub occurs somewhere in s
Has(s, sub) == \E i, j \in 1..Len(s) : SubSeq(s, i, j) = sub

\* the dialect the claim selects for a value of SHELL
ClaimedDialect(sh) ==
  IF Has(sh, <<"z", "s", "h">>) THEN "zsh"
  ELSE IF Has(sh, <<"b", "a", "s", "h">>) THEN "bash"
  ELSE IF Has(sh, <<"f", "i", "s", "h">>) THEN "fish"
  ELSE "bash"

\* the path the claim selects for a dialect
ClaimedPath(d) ==
  CASE d = "zsh" -> <<"<home>", ".zsh_history">>
    [] d = "bash" -> <<"<home>", ".bash_history">>
    [] d = "fish" -> <<"<home>", ".local", "share", "fish", "fish_history">>

\* C14: once the shell is examined, the history path is the one of the
\* dialect selected by substring match on SHELL, "zsh" before "bash" before
\* "fish", and the lines are parsed as that dialect parses them; a value that
\* contains none of the three, the empty one included, selects the plain
\* (bash) dialect and <home>/.bash_history.
C14_ShellSelectsDialectAndPath ==
  (pc \notin {"start", "idle"})
    => LET d == ClaimedDialect(shell)
       IN /\ historyFile = ClaimedPath(d)
          /\ dialect \in (IF d = "bash" THEN {"bash", "unknown"} ELSE {d})
          /\ \A l \in FileLines :
               Contribution(variant, dialect, l) = Contribution(variant, d, l)

\* a value of SHELL in which "bash" stands before "zsh" has selected the
\* path of zsh, and one in which "fish" stands before "bash" that of bash
C14_Witness ==
  /\ pc = "done"
  /\ \/ /\ shell = <<"b", "a", "s", "h", "z", "s", "h">>
        /\ historyFile = <<"<home>", ".zsh_history">>
        /\ dialect = "zsh"
     \/ /\ shell = <<"Z", "S", "H">>
        /\ historyFile = <<"<home>", ".bash_history">>
        /\ dialect = "unknown"

(***************************************************************************)
(* Properties of the fields of the result (specification SpecAnalyze).     *)
(* The expected values are stated on characters, without the operators of  *)
(* the model's analyzer.                                                   *)
(***************************************************************************)
Returned == calls >= 1 /\ failure = "none"

\* C15: every call of AnalyzeHistory returns a result with its six fields
\* and stops with no run-time failure, whatever the sequence: empty, of one
\* element, or holding empty commands and commands shorter than 4 bytes.
C15_Total ==
  (calls >= 1)
    => /\ failure = "none"
       /\ DOMAIN out1 = {"RepeatedCommands", "FailedCommands", "ComplexCommands",
                         "Indecisive", "TimeWasters", "SkillLevel"}

\* a call returned on a sequence in which "cd " (3 bytes) is followed by
\* another command, and reported it as corrected
C15_Witness ==
  /\ Returned
  /\ Len(cmds) = 2
  /\ cmds[1] = <<"c", "d", " ">>
  /\ Len(cmds[1]) < 4
  /\ out1.FailedCommands = <<cmds[1]>>

\* C16: on the empty sequence the result has empty repeated, corrected/failed,
\* complex and distraction lists, a false indecisiveness flag and the skill
\* tier "beginner".
C16_EmptySequence ==
  (calls >= 1 /\ cmds = <<>>)
    => /\ failure = "none"
       /\ out1 = [RepeatedCommands |-> <<>>, FailedCommands |-> <<>>,
                  ComplexCommands |-> <<>>, Indecisive |-> FALSE,
                  TimeWasters |-> <<>>, SkillLevel |-> "beginner"]

\* both calls returned on the empty sequence
C16_Witness ==
  /\ calls = 2
  /\ cmds = <<>>
  /\ out2.Indecisive = FALSE
  /\ out2.SkillLevel = "beginner"

Blank(c) == c \in {" ", "\t"}

\* the first white-space-delimited token of a command, <<>> if it has none
FirstToken(c) ==
  LET black == {i \in 1..Len(c) : ~Blank(c[i])}
  IN IF black = {}
       THEN <<>>
       ELSE LET a == Min(black)
                ends == {j \in a..Len(c) : j = Len(c) \/ Blank(c[j + 1])}
            IN SubSeq(c, a, Min(ends))

\* the number of commands whose first token is b
Tally(b) == Cardinality({i \in 1..Len(cmds) : FirstToken(cmds[i]) = b})

\* C17: the repeated list holds an entry (base command, count) exactly for
\* the first tokens that occur more than 3 times, each once and with its
\* number of occurrences; commands without a token are not tallied.
C17_RepeatedOverThree ==
  Returned
    => LET q == out1.RepeatedCommands
       IN /\ \A i, j \in 1..Len(q) : q[i].Command = q[j].Command => i = j
          /\ {q[i] : i \in 1..Len(q)}
               = {[Command |-> b, Count |-> Tally(b)] :
                    b \in {t \in {FirstToken(cmds[i]) : i \in 1..Len(cmds)} :
                             t # <<>> /\ Tally(t) > 3}}

\* one base command occurs exactly 4 times and is reported with the count 4,
\* next to another base command that is not reported
C17_Witness ==
  /\ Returned
  /\ Len(out1.RepeatedCommands) = 1
  /\ out1.RepeatedCommands[1].Count = 4
  /\ Len(cmds) > 4

\* the bytes that continue a character of several bytes
ContinuationBytes == {"B8", "AD", "8B"}

\* the positions at which a character of the text begins
CharStarts(s) == {i \in 1..Len(s) : s[i] \notin ContinuationBytes}

\* the number of characters of a text
CharCount(s) == Cardinality(CharStarts(s))

\* the first n characters of a text, or all of it when it has fewer
FirstChars(s, n) ==
  IF CharCount(s) <= n
    THEN s
    ELSE LET next == CHOOSE i \in CharStarts(s) :
                       Cardinality({k \in CharStarts(s) : k < i}) = n
         IN SubSeq(s, 1, next - 1)

StartsWith(s, p) == Len(p) <= Len(s) /\ \A k \in 1..Len(p) : s[k] = p[k]

\* the pair (previous, current) of the claim
ClaimedCorrection(previous, current) ==
  /\ \/ StartsWith(previous, <<"c", "d", " ">>)
     \/ StartsWith(previous, <<"m", "k", "d", "i", "r", " ">>)
     \/ StartsWith(previous, <<"g", "i", "t", " ">>)
  /\ StartsWith(current, FirstChars(previous, 4))

\* C18 as claimed: the corrected/failed list holds, in chronological order,
\* the previous command of every adjacent pair (previous, current) in which
\* previous starts with "cd ", "mkdir " or "git " and current starts with the
\* first 4 characters of previous (all of previous if it is shorter), and
\* nothing else.
C18_FailedFromAdjacentPairs ==
  Returned
    => LET idx == [i \in 1..(Len(cmds) - 1) |-> i]
           sel == SelectSeq(idx, LAMBDA i : ClaimedCorrection(cmds[i], cmds[i + 1]))
       IN out1.FailedCommands = [k \in 1..Len(sel) |-> cmds[sel[k]]]

\* C19 as claimed: the complex list holds, in encounter order, exactly the
\* commands with more than 2 '|', or more than 2 ';', or more than 80
\* characters.
C19_ComplexCommands ==
  Returned
    => LET complex(c) ==
             \/ Cardinality({i \in 1..Len(c) : c[i] = "|"}) > 2
             \/ Cardinality({i \in 1..Len(c) : c[i] = ";"}) > 2
             \/ CharCount(c) > 80
       IN out1.ComplexCommands = SelectSeq(cmds, complex)

\* the number of commands of the analysed sequence that satisfy P
Number(P(_)) == Cardinality({i \in 1..Len(cmds) : P(cmds[i])})

\* C20 as claimed: the flag is true if and only if the commands that start
\* with "cd " or that equal or start with "ls" are strictly more than 40% of
\* all commands.
C20_IndecisiveOver40 ==
  Returned
    => LET counted(c) == StartsWith(c, <<"c", "d", " ">>) \/ StartsWith(c, <<"l", "s">>)
       IN out1.Indecisive = (5 * Number(counted) > 2 * Len(cmds))

\* the commands the flag counts: those that start with "cd " or with "ls "
\* and the command "ls"
CdOrLs(c) ==
  \/ StartsWith(c, <<"c", "d", " ">>)
  \/ StartsWith(c, <<"l", "s", " ">>)
  \/ c = <<"l", "s">>

\* C20, amended: the flag is true if and only if the commands that start
\* with "cd " or with "ls " (the blank included) or that equal "ls" are
\* strictly more than 40% of all commands; with no commands it is false.
C20_IndecisiveOver40LsWord ==
  Returned => out1.Indecisive = (5 * Number(CdOrLs) > 2 * Len(cmds))

\* 10 commands of which exactly 4 are counted (40%): the flag is false
C20_Witness ==
  /\ Returned
  /\ Len(cmds) = 10
  /\ Number(CdOrLs) = 4
  /\ out1.Indecisive = FALSE

\* the text with its upper-case ASCII letters replaced by the lower-case ones
Lowered(s) ==
  [i \in 1..Len(s) |->
     IF \E k \in 1..26 : UpperCase[k] = s[i]
       THEN LowerCase[CHOOSE k \in 1..26 : UpperCase[k] = s[i]]
       ELSE s[i]]

\* the text contains the term, whatever the case of the letters of the text
Mentions(c, term) ==
  LET l == Lowered(c)
  IN \E i \in 0..(Len(c) - Len(term)) : \A k \in 1..Len(term) : l[i + k] = term[k]

\* the vocabulary of distraction sites
Sites ==
  {<<"r", "e", "d", "d", "i", "t">>, <<"y", "o", "u", "t", "u", "b", "e">>,
   <<"t", "w", "i", "t", "t", "e", "r">>, <<"f", "a", "c", "e", "b", "o", "o", "k">>,
   <<"i", "n", "s", "t", "a", "g", "r", "a", "m">>}

\* the index of the first command that mentions the term
FirstSeen(term) == Min({i \in 1..Len(cmds) : Mentions(cmds[i], term)})

\* C21: the distraction list holds each vocabulary term at most once, holds a
\* term exactly when some command contains it whatever its letter case, and
\* lists the terms in the order of the commands in which they are first seen.
C21_DistractionsOnceInOrder ==
  Returned
    => LET q == out1.TimeWasters
       IN /\ \A i, j \in 1..Len(q) : q[i] = q[j] => i = j
          /\ {q[i] : i \in 1..Len(q)}
               = {t \in Sites : \E i \in 1..Len(cmds) : Mentions(cmds[i], t)}
          /\ \A i, j \in 1..Len(q) : i < j => FirstSeen(q[i]) <= FirstSeen(q[j])

\* "reddit" is mentioned by two commands and "youtube" by a command between
\* them: the list is youtube, reddit or reddit, youtube by first mention
C21_Witness ==
  /\ Returned
  /\ Len(cmds) = 3
  /\ Mentions(cmds[1], <<"r", "e", "d", "d", "i", "t">>)
  /\ ~Mentions(cmds[1], <<"y", "o", "u", "t", "u", "b", "e">>)
  /\ Mentions(cmds[2], <<"y", "o", "u", "t", "u", "b", "e">>)
  /\ Mentions(cmds[3], <<"r", "e", "d", "d", "i", "t">>)
  /\ cmds[3] # cmds[1]
  /\ out1.TimeWasters = << <<"r", "e", "d", "d", "i", "t">>, <<"y", "o", "u", "t", "u", "b", "e">> >>

\* the advanced vocabulary, as the code spells it
Tools ==
  {<<"a", "w", "k">>, <<"s", "e", "d">>, <<"g", "r", "e", "p", " ", "-", "E">>,
   <<"x", "a", "r", "g", "s">>, <<"f", "i", "n", "d", " ", "-", "e", "x", "e", "c">>,
   <<"d", "o", "c", "k", "e", "r">>, <<"k", "u", "b", "e", "r", "n", "e", "t", "e", "s">>,
   <<"k", "8", "s">>, <<"k", "u", "b", "e", "c", "t", "l">>}

\* the tier of a number of advanced commands
Tier(c) == IF c > 5 THEN "advanced" ELSE IF c > 2 THEN "intermediate" ELSE "beginner"

\* the lower-cased command contains a term as the vocabulary spells it
MatchesSpelled(c) == \E t \in Tools : Mentions(c, t)

\* C22: the skill tier is that of the number c of commands whose lower-cased
\* text contains at least one term of the advanced vocabulary, a command
\* counting once however many terms it contains: advanced for c > 5,
\* intermediate for 2 < c <= 5, beginner for c <= 2.
C22_SkillTier ==
  Returned => out1.SkillLevel = Tier(Number(MatchesSpelled))

\* five commands that each contain two terms: intermediate, not advanced
C22_Witness ==
  /\ Returned
  /\ Number(LAMBDA c : Mentions(c, <<"a", "w", "k">>) /\ Mentions(c, <<"s", "e", "d">>)) = 5
  /\ Number(MatchesSpelled) = 5
  /\ out1.SkillLevel = "intermediate"

\* the command contains a term of the vocabulary, whatever the letter case
\* of the command and of the term
MatchesAnyCase(c) == \E t \in Tools : Mentions(c, Lowered(t))

\* C23 as claimed: every term of the advanced vocabulary can match: a command
\* that contains a term in any letter case is counted as advanced, a command
\* with "grep -E" included.
C23_EveryTermMatches ==
  Returned => out1.SkillLevel = Tier(Number(MatchesAnyCase))

(***************************************************************************)
(* The sliding window and the run-time failures of the reader              *)
(* (specification Spec).                                                   *)
(***************************************************************************)
\* the commands of the lines scanned so far
ParsedSoFar == Parsed(variant, dialect, SubSeq(file, 1, pos - 1))

\* the last n elements of q, or all of q when it has fewer
LastAtMost(q, n) == SubSeq(q, Len(q) - Smaller(n, Len(q)) + 1, Len(q))

\* C24: while the sliding-window reader scans a file with limit > 0, after
\* each line the retained buffer holds exactly the last min(limit, k) of the
\* k commands parsed so far, in order, and what it returns is the last-limit
\* slice of the complete parsed list.
C24_SlidingWindow ==
  (variant = "part_001" /\ fileExists /\ limit > 0 /\ pc \in {"scan", "done"})
    => /\ commands = LastAtMost(ParsedSoFar, limit)
       /\ (pc = "done" /\ err = "nil") => result = LastAtMost(ParsedNow, limit)

\* the scan of the sliding-window reader has parsed more commands than the
\* limit of at least 2 and retains the newest ones
C24_Witness ==
  /\ variant = "part_001"
  /\ fileExists
  /\ pc = "scan"
  /\ limit >= 2
  /\ Len(ParsedSoFar) > limit
  /\ Len(commands) = limit
  /\ commands[1] # ParsedSoFar[1]
  /\ commands[limit] = ParsedSoFar[Len(ParsedSoFar)]

\* C25 as claimed: for every integer limit, 0 and the negative values other
\* than -1 included, GetShellHistory on an existing readable history file
\* returns and never fails at run time with a slice bound out of range or an
\* invalid slice capacity.
C25_NoRuntimeFailure == fileExists => pc # "panic"

(***************************************************************************)
(* Continuous mode: runContinuousMode, GenerateRoast and sampleCommands.   *)
(* A history is the sequence of the positions of its commands, 1 for the   *)
(* oldest: positions are all that sampleCommands looks at. The patterns    *)
(* only feed the text of a roast, which is "local roast" for a roast of    *)
(* generateLocalRoast and "completion" for the answer of a language model. *)
(***************************************************************************)

\* the largest --max and the number of history reads that are followed
MaxRoasts == 2

MaxReads == 3

LowerLimit == 100

UpperLimit == 500

\* what getComplexityLevel returns
Complexities == {"SimpleRoast", "NormalRoast", "ComplexRoast", "BrutalRoast"}

\* the providers with an init function, and the values of ai.provider
AIProviders == {"openai", "anthropic", "gemini", "custom"}

Providers == {"", "local", "llama"} \cup AIProviders

\* the part of config.Config that ai.go and the configuration screen use; the
\* value of a field is the sequence of the pieces of its text
Config(p, keys, models, url) ==
  [Provider |-> p, APIKey |-> keys, Model |-> models, BaseURL |-> url]

NoKeys == [q \in AIProviders |-> <<>>]

DefaultModels ==
  [q \in AIProviders |->
     CASE q = "openai" -> <<"gpt-3.5-turbo">>
       [] q = "anthropic" -> <<"claude-2">>
       [] OTHER -> <<>>]

\* a configuration with provider p whose API key is k
ConfigOf(p, k) ==
  Config(p, [q \in AIProviders |-> IF q = p THEN k ELSE <<>>], DefaultModels, <<>>)

RoastConfigs ==
  {ConfigOf(p, <<>>) : p \in Providers}
    \cup {ConfigOf(p, <<"key">>) : p \in AIProviders}

\* what constructing the client and calling it can do
LLMOutcomes == {"ok", "new fails", "call fails"}

\* the number of commands GetShellHistory can return
HistorySizes == {0, 50, 51, 100, 500}

Intervals == {1, 5}

\* the switch on complexity in sampleCommands
sampleSizeOf(c) ==
  CASE c = "SimpleRoast" -> 50
    [] c = "NormalRoast" -> 80
    [] c = "ComplexRoast" -> 120
    [] c = "BrutalRoast" -> 150
    [] OTHER -> 80

\* sampleCommands(commands, complexity); index i of the code is i + 1 here
sampleCommands(cs, c) ==
  IF Len(cs) <= 50
    THEN cs
    ELSE LET n == Len(cs)
             sampleSize == IF sampleSizeOf(c) > n THEN n ELSE sampleSizeOf(c)
             recentCount == (sampleSize * 4) \div 10
             recentStart == IF n - recentCount < 0 THEN 0 ELSE n - recentCount
             midCount == (sampleSize * 3) \div 10
             midPoint == n \div 2
             midStart == midPoint - (midCount \div 2)
             startIdx == IF midStart < 0 THEN 0 ELSE midStart
             endIdx == IF midStart + midCount > n THEN n ELSE midStart + midCount
             earlyCount == IF (sampleSize * 3) \div 10 > n
                             THEN n
                             ELSE (sampleSize * 3) \div 10
         IN SubSeq(cs, recentStart + 1, n)
              \o SubSeq(cs, startIdx + 1, endIdx)
              \o SubSeq(cs, 1, earlyCount)

\* initOpenAI, initAnthropic, initGemini, initCustom: the error they return
initOpenAI(c, l) ==
  IF c.APIKey["openai"] = <<>>
    THEN "OpenAI API key not configured"
    ELSE IF l = "new fails" THEN "client error" ELSE "nil"

initAnthropic(c) == "anthropic support not implemented yet"

initGemini(c, l) ==
  IF c.APIKey["gemini"] = <<>>
    THEN "google Gemini API key not configured"
    ELSE IF l = "new fails" THEN "client error" ELSE "nil"

initCustom(c) == "custom LLM provider support not implemented yet"

\* generateAIRoast: the text and the error it returns, the provider whose
\* init function it called, whether it called the language model, and the
\* sample it put into the prompt
generateAIRoast(c, cs, cx, l) ==
  LET sampledCommands == sampleCommands(cs, cx)
      p == c.Provider
  IN IF p \notin AIProviders
       THEN [text |-> "", err |-> "unsupported AI provider", init |-> "none",
             called |-> FALSE, sampled |-> sampledCommands]
       ELSE LET e == CASE p = "openai" -> initOpenAI(c, l)
                       [] p = "anthropic" -> initAnthropic(c)
                       [] p = "gemini" -> initGemini(c, l)
                       [] p = "custom" -> initCustom(c)
            IN IF e # "nil"
                 THEN [text |-> "", err |-> e, init |-> p, called |-> FALSE,
                       sampled |-> sampledCommands]
                 ELSE IF l = "call fails"
                        THEN [text |-> "", err |-> "call failed", init |-> p,
                              called |-> TRUE, sampled |-> sampledCommands]
                        ELSE [text |-> "completion", err |-> "nil", init |-> p,
                              called |-> TRUE, sampled |-> sampledCommands]

\* GenerateRoast handing the error of the AI path to its caller
GenerateRoastPropagates(c, cs, cx, l) ==
  IF c.Provider = "" \/ c.Provider = "local"
    THEN [NoRoast EXCEPT !.text = "local roast"]
    ELSE LET r == generateAIRoast(c, cs, cx, l)
         IN [text |-> r.text, err |-> r.err, aiErr |-> r.err, init |-> r.init,
             called |-> r.called, sampled |-> r.sampled]

\* GenerateRoast(cfg, patterns, commands, complexity); aiErr is the error of
\* generateAIRoast, "none" when it was not called
GenerateRoast(c, cs, cx, l) ==
  IF c.Provider = "" \/ c.Provider = "local"
    THEN [NoRoast EXCEPT !.text = "local roast"]
    ELSE LET r == generateAIRoast(c, cs, cx, l)
         IN IF r.err # "nil"
              THEN [text |-> "local roast", err |-> "nil", aiErr |-> r.err,
                    init |-> r.init, called |-> r.called, sampled |-> r.sampled]
              ELSE [text |-> r.text, err |-> "nil", aiErr |-> "nil",
                    init |-> r.init, called |-> r.called, sampled |-> r.sampled]

\* the test at the head of the loop, taken when one roast too many was shown
reachedMaximumLate(c, m) == m > 0 /\ c > m

\* the test at the head of the loop: maxRoasts > 0 && count >= maxRoasts
reachedMaximum(c, m) == m > 0 /\ c >= m

\* the head of the loop: return when the maximum is reached, otherwise sleep
\* when a roast was displayed before
LoopHead ==
  /\ cpc = "head"
  /\ IF reachedMaximum(count, maxRoasts)
       THEN cpc' = "exit" /\ UNCHANGED waited
       ELSE /\ cpc' = "read"
            /\ waited' = IF count > 0 THEN waited + interval ELSE waited
  /\ UNCHANGED <<count, maxRoasts, interval, deep, notifySystem, complexity, cfg,
                 history, llm, roast, displayed, notified, reads, gapBefore>>
  /\ UNCHANGED <<hvars, avars, rvars, uvars>>

\* GetShellHistory(limit) and the test of its error
ReadHistory ==
  /\ cpc = "read"
  /\ reads < MaxReads
  /\ reads' = reads + 1
  /\ gapBefore' = waited
  /\ waited' = 0
  /\ LET lim == IF deep THEN UpperLimit ELSE LowerLimit
     IN \/ cpc' = "head" /\ UNCHANGED history
        \/ \E n \in {k \in HistorySizes : k <= lim} :
             /\ history' = [i \in 1..n |-> i]
             /\ cpc' = "generate"
  /\ UNCHANGED <<count, maxRoasts, interval, deep, notifySystem, complexity, cfg,
                 llm, roast, displayed, notified>>
  /\ UNCHANGED <<hvars, avars, rvars, uvars>>

\* AnalyzeHistory(commands) and GenerateRoast(cfg, patterns, commands, ...)
Generate ==
  /\ cpc = "generate"
  /\ \E l \in LLMOutcomes :
       /\ llm' = l
       /\ roast' = GenerateRoast(cfg, history, complexity, l)
  /\ cpc' = "generated"
  /\ UNCHANGED <<count, maxRoasts, interval, deep, notifySystem, complexity, cfg,
                 history, displayed, notified, reads, waited, gapBefore>>
  /\ UNCHANGED <<hvars, avars, rvars, uvars>>

\* the test of the error of GenerateRoast, the notification, the display of
\* the roast and count++; commands and roast end with the iteration
Display ==
  /\ cpc = "generated"
  /\ IF roast.err # "nil"
       THEN UNCHANGED <<count, displayed, notified>>
       ELSE /\ notified' = IF notifySystem THEN notified + 1 ELSE notified
            /\ displayed' = displayed + 1
            /\ count' = count + 1
  /\ cpc' = "head"
  /\ history' = "none"
  /\ llm' = "none"
  /\ roast' = NoRoast
  /\ UNCHANGED <<maxRoasts, interval, deep, notifySystem, complexity, cfg,
                 reads, waited, gapBefore>>
  /\ UNCHANGED <<hvars, avars, rvars, uvars>>

NextRoast == LoopHead \/ ReadHistory \/ Generate \/ Display

\* GetShellHistory and AnalyzeHistory are not running on their own
IdleHistory ==
  /\ variant = "history.go"
  /\ shell = <<>>
  /\ fileExists = FALSE
  /\ file = <<>>
  /\ limit = 0
  /\ pc = "idle"
  /\ dialect = "none"
  /\ pos = 1
  /\ commands = <<>>
  /\ result = <<>>
  /\ err = "nil"
  /\ historyFile = <<>>
  /\ scanErr = "nil"
  /\ runLen = 1
  /\ cmds = <<>>
  /\ calls = 0
  /\ out1 = "none"
  /\ out2 = "none"
  /\ failure = "none"

\* runContinuousMode starts with count = 0, under every value of the flags
InitRoast ==
  /\ IdleHistory
  /\ IdleConfig
  /\ cpc = "head"
  /\ count = 0
  /\ maxRoasts \in 0..MaxRoasts
  /\ interval \in Intervals
  /\ deep \in BOOLEAN
  /\ notifySystem \in BOOLEAN
  /\ complexity \in Complexities
  /\ cfg \in RoastConfigs
  /\ history = "none"
  /\ llm = "none"
  /\ roast = NoRoast
  /\ displayed = 0
  /\ notified = 0
  /\ reads = 0
  /\ waited = 0
  /\ gapBefore = 0

SpecRoast == InitRoast /\ [][NextRoast]_vars

(***************************************************************************)
(* C26: in continuous mode with maxRoasts = N > 0 the number of roasts     *)
(* displayed never exceeds N, the loop exits at the first loop head at     *)
(* which that number equals N and only there, an iteration whose history   *)
(* read or roast generation failed leaves the number as it was, and with   *)
(* maxRoasts = 0 the loop never exits.                                     *)
(***************************************************************************)
AtMaximum == cpc = "head" /\ maxRoasts > 0 /\ displayed = maxRoasts

IterationFailed ==
  \/ cpc = "read" /\ cpc' = "head"
  \/ cpc = "generated" /\ roast.err # "nil"

C26_Step ==
  /\ maxRoasts > 0 => displayed' <= maxRoasts
  /\ AtMaximum => cpc' = "exit"
  /\ cpc' = "exit" => AtMaximum \/ cpc = "exit"
  /\ IterationFailed => displayed' = displayed
  /\ displayed' # displayed => cpc = "generated" /\ displayed' = displayed + 1

C26_MaxRoasts == [][C26_Step]_vars

\* the loop has returned after two roasts and a failed iteration
C26_Witness ==
  cpc = "exit" /\ maxRoasts = 2 /\ displayed = 2 /\ reads = 3

(***************************************************************************)
(* C27: every history read of continuous mode other than the first one is  *)
(* preceded by a sleep of interval minutes, so that two reads never follow *)
(* each other without a sleep, also when iterations fail.                  *)
(***************************************************************************)
C27_SleepBeforeEveryRead == reads >= 2 => gapBefore = interval

(***************************************************************************)
(* C28: GenerateRoast never returns an error; with provider "" or "local"  *)
(* it returns the local roast and neither initialises nor calls a          *)
(* provider; when the AI path fails (provider name not supported, API key  *)
(* missing, provider not implemented, client or call failed) it returns    *)
(* the local roast.                                                        *)
(***************************************************************************)
AIPathFails ==
  \/ cfg.Provider \notin {"openai", "anthropic", "gemini", "custom"}
  \/ cfg.Provider \in {"anthropic", "custom"}
  \/ cfg.Provider \in {"openai", "gemini"} /\ cfg.APIKey[cfg.Provider] = <<>>
  \/ llm # "ok"

C28_NeverAnError ==
  cpc = "generated" =>
    /\ roast.err = "nil"
    /\ cfg.Provider \in {"", "local"} =>
         roast.text = "local roast" /\ roast.init = "none" /\ ~roast.called
    /\ cfg.Provider \notin {"", "local"} =>
         roast.text = IF AIPathFails THEN "local roast" ELSE "completion"

\* the call of the language model failed and the local roast was returned
C28_Witness ==
  /\ cpc = "generated"
  /\ cfg.Provider = "openai"
  /\ llm = "call fails"
  /\ roast.called
  /\ roast.text = "local roast"

(***************************************************************************)
(* C29: sampleCommands returns its input unchanged when it has at most 50  *)
(* commands; for more than 50 commands it returns at most sampleSize       *)
(* entries of the input, and no position of the input twice.               *)
(***************************************************************************)
ClaimedSampleSize ==
  LET s == CASE complexity = "SimpleRoast" -> 50
             [] complexity = "NormalRoast" -> 80
             [] complexity = "ComplexRoast" -> 120
             [] complexity = "BrutalRoast" -> 150
  IN IF s > Len(history) THEN Len(history) ELSE s

C29_SampleDisjoint ==
  (cpc = "generated" /\ cfg.Provider \notin {"", "local"}) =>
    LET s == roast.sampled
    IN IF Len(history) <= 50
         THEN s = history
         ELSE /\ Len(s) <= ClaimedSampleSize
              /\ \A i \in 1..Len(s) : s[i] \in 1..Len(history)
              /\ \A i \in 1..Len(s) : \A j \in 1..Len(s) : s[i] = s[j] => i = j

(***************************************************************************)
(* The configuration screen: configModel of part_004. Update has a value   *)
(* receiver: it works on a copy of the model and the event loop goes on    *)
(* with the model that Update returns. A text input is its value, the      *)
(* sequence of the pieces of its text, and whether it has the focus.       *)
(***************************************************************************)

\* the number of saves that are followed and the number of runes typed into
\* one input
MaxSaves == 1

MaxTyped == 1

\* the providers the screen cycles through
providers == <<"local", "gemini", "openai", "anthropic", "custom">>

\* textinput.New() followed by SetValue(v)
Input(v) == [value |-> v, focus |-> FALSE]

\* the value of modelInput: the configured model, or the default when none
ModelValue(v, default) == IF v = <<>> THEN <<default>> ELSE v

\* setupInputsForCurrentProvider: the inputs of the provider, then the Back
\* and the Save button
setupInputsForCurrentProvider(m) ==
  LET p == m.currentProvider
      fields ==
        CASE p = "gemini" ->
               <<Input(m.cfg.APIKey[p]), Input(ModelValue(m.cfg.Model[p], "gemini-pro"))>>
          [] p = "openai" ->
               <<Input(m.cfg.APIKey[p]), Input(ModelValue(m.cfg.Model[p], "gpt-3.5-turbo"))>>
          [] p = "anthropic" ->
               <<Input(m.cfg.APIKey[p]), Input(ModelValue(m.cfg.Model[p], "claude-2"))>>
          [] p = "custom" ->
               <<Input(m.cfg.APIKey[p]), Input(m.cfg.BaseURL), Input(m.cfg.Model[p])>>
          [] OTHER -> <<>>
  IN [m EXCEPT !.inputs = fields \o <<Input(<<"[ Back to Provider Selection ]">>),
                                      Input(<<"[ Save Configuration ]">>)>>]

\* the loop that gives the focus to the input at currentIndex and takes it
\* from the others
FocusCurrent(m) ==
  [m EXCEPT !.inputs = [i \in 1..Len(m.inputs) |->
                          [m.inputs[i] EXCEPT !.focus = (i = m.currentIndex + 1)]]]

\* the position of provider p in providers, 0 when it is not one of them
IndexOf(p) ==
  IF \E i \in 1..Len(providers) : providers[i] = p
    THEN CHOOSE i \in 1..Len(providers) : providers[i] = p
    ELSE 0

\* the first part of saveConfig: the configuration it builds from the inputs
savedConfig(m) ==
  LET p == m.currentProvider
      c == [m.cfg EXCEPT !.Provider = p]
  IN IF p # "local" /\ Len(m.inputs) >= 2
       THEN CASE p \in {"gemini", "openai", "anthropic"} ->
                   [c EXCEPT !.APIKey[p] = m.inputs[1].value,
                             !.Model[p] = m.inputs[2].value]
              [] p = "custom" /\ Len(m.inputs) >= 3 ->
                   [c EXCEPT !.APIKey[p] = m.inputs[1].value,
                             !.BaseURL = m.inputs[2].value,
                             !.Model[p] = m.inputs[3].value]
              [] OTHER -> c
       ELSE c

\* "ctrl+c" or "esc": the model is returned with tea.Quit
KeyQuit ==
  /\ ~quit
  /\ quit' = TRUE
  /\ lastSave' = 0
  /\ UNCHANGED <<model, config, written, copies>>
  /\ UNCHANGED <<hvars, avars, rvars, cvars>>

\* "enter". On the Save button saveConfig works on the copy of the model
\* that Update holds: it sets the configuration, calls config.UpdateConfig,
\* which may fail to write the file, and after a success starts a goroutine
\* that sets the page of that copy one second later. Update returns the copy
\* at once; the write of the goroutine is not synchronised with that return,
\* so the model returned has it when it came first.
KeyEnter ==
  /\ ~quit
  /\ IF model.page = "provider"
       THEN /\ LET m1 == setupInputsForCurrentProvider([model EXCEPT !.page = "settings"])
                   m2 == [m1 EXCEPT !.currentIndex = 0]
               IN model' = [m2 EXCEPT !.inputs[1].focus = TRUE]
            /\ lastSave' = 0
            /\ UNCHANGED <<config, written, copies>>
       ELSE IF model.page = "settings" /\ model.currentIndex = Len(model.inputs) - 1
         THEN LET c == savedConfig(model)
              IN /\ Len(copies) < MaxSaves
                 /\ config' = c
                 /\ \E ok \in BOOLEAN :
                      IF ok
                        THEN /\ written' = TRUE
                             /\ lastSave' = Len(copies) + 1
                             /\ \E first \in BOOLEAN :
                                  /\ copies' = Append(copies, IF first THEN "provider" ELSE "settings")
                                  /\ model' = [model EXCEPT
                                                 !.cfg = c,
                                                 !.successMsg = "Configuration saved successfully!",
                                                 !.page = IF first THEN "provider" ELSE "settings"]
                        ELSE /\ model' = [model EXCEPT
                                            !.cfg = c,
                                            !.err = "Failed to save configuration"]
                             /\ lastSave' = 0
                             /\ copies' = Append(copies, "none")
                             /\ UNCHANGED written
         ELSE IF model.page = "settings" /\ model.currentIndex = Len(model.inputs) - 2
           THEN /\ model' = [model EXCEPT !.page = "provider"]
                /\ lastSave' = 0
                /\ UNCHANGED <<config, written, copies>>
           ELSE /\ model' =
                     IF model.page = "settings"
                       THEN LET n == model.currentIndex + 1
                            IN FocusCurrent([model EXCEPT !.currentIndex =
                                               IF n >= Len(model.inputs) THEN 0 ELSE n])
                       ELSE model
                /\ lastSave' = 0
                /\ UNCHANGED <<config, written, copies>>
  /\ UNCHANGED quit
  /\ UNCHANGED <<hvars, avars, rvars, cvars>>

\* "tab": the next provider, or the next input
KeyTab ==
  /\ ~quit
  /\ model' =
       IF model.page = "provider"
         THEN IF IndexOf(model.currentProvider) # 0
                THEN [model EXCEPT !.currentProvider =
                        providers[(IndexOf(model.currentProvider) % Len(providers)) + 1]]
                ELSE model
         ELSE IF model.page = "settings"
           THEN FocusCurrent([model EXCEPT !.currentIndex =
                                (model.currentIndex + 1) % Len(model.inputs)])
           ELSE model
  /\ lastSave' = 0
  /\ UNCHANGED <<quit, config, written, copies>>
  /\ UNCHANGED <<hvars, avars, rvars, cvars>>

\* "shift+tab": the previous provider, or the previous input
KeyShiftTab ==
  /\ ~quit
  /\ model' =
       IF model.page = "provider"
         THEN IF IndexOf(model.currentProvider) # 0
                THEN [model EXCEPT !.currentProvider =
                        IF IndexOf(model.currentProvider) = 1
                          THEN providers[Len(providers)]
                          ELSE providers[IndexOf(model.currentProvider) - 1]]
                ELSE model
         ELSE IF model.page = "settings"
           THEN FocusCurrent([model EXCEPT !.currentIndex =
                                IF model.currentIndex - 1 < 0
                                  THEN Len(model.inputs) - 1
                                  ELSE model.currentIndex - 1])
           ELSE model
  /\ lastSave' = 0
  /\ UNCHANGED <<quit, config, written, copies>>
  /\ UNCHANGED <<hvars, avars, rvars, cvars>>

\* "1" to "5": the provider with that number, on the provider page
KeyDigit ==
  /\ ~quit
  /\ \E d \in 1..5 :
       model' = IF model.page = "provider"
                  THEN [model EXCEPT !.currentProvider = providers[d]]
                  ELSE model
  /\ lastSave' = 0
  /\ UNCHANGED <<quit, config, written, copies>>
  /\ UNCHANGED <<hvars, avars, rvars, cvars>>

\* any other key, here the rune "k": on the settings page the input at
\* currentIndex gets it, and takes it when it has the focus
KeyRune ==
  /\ ~quit
  /\ IF model.page = "settings" /\ model.currentIndex < Len(model.inputs)
       THEN LET input == model.inputs[model.currentIndex + 1]
            IN IF input.focus
                 THEN /\ Len(input.value) < MaxTyped
                      /\ model' = [model EXCEPT !.inputs[model.currentIndex + 1].value =
                                                   Append(input.value, "k")]
                 ELSE UNCHANGED model
       ELSE UNCHANGED model
  /\ lastSave' = 0
  /\ UNCHANGED <<quit, config, written, copies>>
  /\ UNCHANGED <<hvars, avars, rvars, cvars>>

\* the goroutine of a save wakes up and sets the page of the copy of the
\* model that saveConfig worked on
GoroutineWrites ==
  /\ ~quit
  /\ \E s \in 1..Len(copies) :
       /\ copies[s] = "settings"
       /\ copies' = [copies EXCEPT ![s] = "provider"]
  /\ UNCHANGED <<model, quit, config, written, lastSave>>
  /\ UNCHANGED <<hvars, avars, rvars, cvars>>

NextConfig ==
  KeyQuit \/ KeyEnter \/ KeyTab \/ KeyShiftTab \/ KeyDigit \/ KeyRune \/ GoroutineWrites

\* RunConfigInterface: the model starts on the provider page with the
\* provider of the configuration
InitConfig ==
  /\ IdleHistory
  /\ IdleRoast
  /\ config \in RoastConfigs
  /\ model = [inputs |-> <<>>, currentIndex |-> 0, currentProvider |-> config.Provider,
              cfg |-> config, err |-> "", successMsg |-> "", page |-> "provider"]
  /\ quit = FALSE
  /\ written = FALSE
  /\ copies = <<>>
  /\ lastSave = 0

SpecConfig == InitConfig /\ [][NextConfig]_vars

(***************************************************************************)
(* C30: after Enter on the Save button and a successful save, the page of  *)
(* the model that the event loop holds becomes "provider": once the        *)
(* goroutine of the last save has made its write, and no other message was *)
(* handled since the save, that model is on the provider page.             *)
(***************************************************************************)
C30_ReturnsToProviderPage ==
  (lastSave # 0 /\ copies[lastSave] = "provider") => model.page = "provider"

====
